---- MODULE Spec2Model ----
(***************************************************************************)
(* Model of diabot's conversion core:                                      *)
(*   src/src/conversions/glucose.rs  Glucose, ParsedGlucoseResult::parse,  *)
(*                                   parse_glucose_input                   *)
(*   src/src/conversions/a1c.rs      A1cEstimation and its accessors       *)
(*                                                                         *)
(* Strings are sequences of one-character strings.  An f32 is a record     *)
(* [sign, man, exp] standing for (-1)^sign * man * 2^exp, with             *)
(* 2^23 <= man < 2^24 (or man = 0, exp = 0 for zero); every arithmetic     *)
(* operation rounds to nearest, ties to even, as IEEE 754 binary32 does.   *)
(* Magnitudes stay far from the overflow and subnormal ranges, so the      *)
(* exponent is left unbounded.                                             *)
(***************************************************************************)
EXTENDS Integers, Sequences, FiniteSets, TLC

VARIABLES
    input,      \* parse: the string s handed to ParsedGlucoseResult::parse
    hint,       \* parse: the unit argument (None or a string)
    result,     \* parse: what the call returned
    bg0,        \* Glucose: the value a chain of conversions started from
    bg,         \* Glucose: the current value
    ops,        \* Glucose: the conversions applied to bg0, in order
    est0,       \* A1cEstimation: the record as constructed
    est,        \* A1cEstimation: the record now
    calls,      \* A1cEstimation: the accessors called so far, in order
    ret         \* A1cEstimation: what the last accessor call returned

vars == <<input, hint, result, bg0, bg, ops, est0, est, calls, ret>>

\* Option<T>
None == [some |-> FALSE]

Some(x) == [some |-> TRUE, val |-> x]

(***************************************************************************)
(* f32                                                                     *)
(***************************************************************************)
MantBits == 24

Hidden == 2 ^ (MantBits - 1)

Zero32(sign) == [sign |-> sign, man |-> 0, exp |-> 0]

\* A significand q in [2^23, 2^24] with its exponent, renormalised.
Pack(sign, q, e) ==
    IF q = 2 * Hidden
    THEN [sign |-> sign, man |-> Hidden, exp |-> e + 1]
    ELSE [sign |-> sign, man |-> q, exp |-> e]

\* Round to nearest, ties to even: q with a discarded part r out of 2 * half.
RoundNearestEven(q, r, half) ==
    IF r > half \/ (r = half /\ q % 2 = 1) THEN q + 1 ELSE q

\* floor(log2(n)) for 0 < n < 2^31
Log2(n) == CHOOSE k \in 0..30 : 2 ^ k <= n /\ n \div 2 < 2 ^ k

\* <<num', den', e'>> with num/den * 2^e unchanged and den' <= num' < 2 den',
\* given that den * 2^s has as many bits as num (s >= 0), or num * 2^(-s) as
\* many as den (s < 0).
NormShift(num, den, e, s) ==
    IF s > 0
    THEN IF den * 2 ^ s <= num THEN <<num, den * 2 ^ s, e + s>>
         ELSE <<num, den * 2 ^ (s - 1), e + s - 1>>
    ELSE IF num * 2 ^ (-s) >= den THEN <<num * 2 ^ (-s), den, e + s>>
         ELSE <<2 * num * 2 ^ (-s), den, e + s - 1>>

NormRatio(num, den, e) == NormShift(num, den, e, Log2(num) - Log2(den))

\* How many quotient bits one step of the long division may take: the most
\* with r * 2^c inside 32 bits for every remainder r < den.
Chunk(den) ==
    CHOOSE c \in 1..(MantBits - 1) :
        /\ den <= (2 ^ 30 - 1 + 2 ^ 30) \div 2 ^ c
        /\ c = MantBits - 1 \/ den > (2 ^ 30 - 1 + 2 ^ 30) \div 2 ^ (c + 1)

RECURSIVE DivBits(_, _, _, _, _)
\* n more quotient bits of (q + r / den), c at a time: <<quotient, remainder>>.
DivBits(r, den, q, n, c) ==
    IF n = 0 THEN <<q, r>>
    ELSE IF n < c THEN DivBits(r, den, q, n, n)
    ELSE DivBits((r * 2 ^ c) % den, den, q * 2 ^ c + (r * 2 ^ c) \div den,
                 n - c, c)

\* The quotient bits d = <<q, r>> of a normalised ratio, rounded and packed.
RoundBits(sign, d, den, e) ==
    Pack(sign, RoundNearestEven(d[1], 2 * d[2], den), e - (MantBits - 1))

\* n = <<num, den, e>> with den <= num < 2 den: the leading bit is 1.
RoundNorm(sign, n) ==
    RoundBits(sign, DivBits(n[1] - n[2], n[2], 1, MantBits - 1, Chunk(n[2])),
              n[2], n[3])

\* The f32 nearest to (-1)^sign * num / den * 2^e, for 0 <= num, 0 < den < 2^30.
RoundRatio(sign, num, den, e) ==
    IF num = 0 THEN Zero32(sign) ELSE RoundNorm(sign, NormRatio(num, den, e))

\* The f32 nearest to (-1)^sign * n * 2^e, for an integer 0 < n < 2^31 of k + 1 bits.
RoundBitsOf(sign, n, e, k) ==
    IF k < MantBits THEN Pack(sign, n * 2 ^ (MantBits - 1 - k), e + k - (MantBits - 1))
    ELSE Pack(sign,
              RoundNearestEven(n \div 2 ^ (k - (MantBits - 1)),
                               n % 2 ^ (k - (MantBits - 1)),
                               2 ^ (k - MantBits)),
              e + k - (MantBits - 1))

RoundInt(sign, n, e) ==
    IF n = 0 THEN Zero32(sign) ELSE RoundBitsOf(sign, n, e, Log2(n))

\* `v as f32` for an i32 v.
FromInt(v) == RoundInt(IF v < 0 THEN 1 ELSE 0, IF v < 0 THEN -v ELSE v, 0)

\* A decimal literal digits / 10^frac, as rustc rounds it to f32.
Lit(digits, frac) ==
    RoundRatio(IF digits < 0 THEN 1 ELSE 0,
               IF digits < 0 THEN -digits ELSE digits, 10 ^ frac, 0)

Neg32(a) == [a EXCEPT !.sign = 1 - a.sign]

\* The 48-bit product p = <<hi, lo>> = hi * 2^24 + lo of two significands,
\* rounded to 24 bits.
MulRound(sign, p, e) ==
    IF p[1] >= Hidden
    THEN Pack(sign, RoundNearestEven(p[1], p[2], Hidden), e + MantBits)
    ELSE Pack(sign, RoundNearestEven(2 * p[1] + p[2] \div Hidden, p[2] % Hidden,
                                     Hidden \div 2),
              e + MantBits - 1)

\* hi * 2^24 + los, with los < 2^25, as <<hi', lo'>> with lo' < 2^24.
MulCarry(hi, los) == <<hi + los \div (2 * Hidden), los % (2 * Hidden)>>

\* hh * 2^24 + mid * 2^12 + ll
MulSum(hh, mid, ll, L) == MulCarry(hh + mid \div L, ll + (mid % L) * L)

\* (ah * L + al) * (bh * L + bl) for the 12-bit halves of two significands.
MulHalves(ah, al, bh, bl, L) == MulSum(ah * bh, ah * bl + al * bh, al * bl, L)

MulMan(ma, mb, L) == MulHalves(ma \div L, ma % L, mb \div L, mb % L, L)

\* a * b
Mul32(a, b) ==
    IF a.man = 0 \/ b.man = 0 THEN Zero32((a.sign + b.sign) % 2)
    ELSE MulRound((a.sign + b.sign) % 2,
                  MulMan(a.man, b.man, 2 ^ (MantBits \div 2)),
                  a.exp + b.exp)

\* a / b for b /= 0.
Div32(a, b) == RoundRatio((a.sign + b.sign) % 2, a.man, b.man, a.exp - b.exp)

\* |a| < |b|
MagLess(a, b) ==
    IF a.man = 0 THEN b.man /= 0
    ELSE IF b.man = 0 THEN FALSE
    ELSE a.exp < b.exp \/ (a.exp = b.exp /\ a.man < b.man)

\* a < b (IEEE: -0.0 and 0.0 compare equal)
Lt32(a, b) ==
    IF a.man = 0 /\ b.man = 0 THEN FALSE
    ELSE IF a.sign /= b.sign THEN a.sign = 1
    ELSE IF a.sign = 0 THEN MagLess(a, b) ELSE MagLess(b, a)

\* a == b
Eq32(a, b) == ~Lt32(a, b) /\ ~Lt32(b, a)

Le32(a, b) == ~Lt32(b, a)

\* m shifted right by d bits, the bits shifted out kept as a sticky low bit.
ShiftSticky(m, d) ==
    IF d > MantBits + 3 THEN 1
    ELSE LET q == m \div (2 ^ d)
         IN  IF m % (2 ^ d) /= 0 /\ q % 2 = 0 THEN q + 1 ELSE q

\* x.sign * sum * 2^(x.exp - 3), rounded.
AddRound(x, sum) ==
    IF sum = 0 THEN Zero32(0) ELSE RoundInt(x.sign, sum, x.exp - 3)

\* x + y for |x| >= |y| > 0, with three guard bits under the significands.
AddOrdered(x, y) ==
    AddRound(x, IF x.sign = y.sign
                THEN 8 * x.man + ShiftSticky(8 * y.man, x.exp - y.exp)
                ELSE 8 * x.man - ShiftSticky(8 * y.man, x.exp - y.exp))

\* a + b
Add32(a, b) ==
    IF a.man = 0 /\ b.man = 0
    THEN Zero32(IF a.sign = 1 /\ b.sign = 1 THEN 1 ELSE 0)
    ELSE IF a.man = 0 THEN b
    ELSE IF b.man = 0 THEN a
    ELSE IF MagLess(a, b) THEN AddOrdered(b, a)
    ELSE AddOrdered(a, b)

Sub32(a, b) == Add32(a, Neg32(b))

\* man * 2^(-k) to the nearest integer, halves up.
RoundMag(man, k) ==
    IF man = 0 THEN 0
    ELSE IF k <= 0 THEN man * 2 ^ (-k)
    ELSE IF k > MantBits THEN 0
    ELSE (man + 2 ^ (k - 1)) \div 2 ^ k

\* RoundToInt with halves going up (floor(a + 0.5)) whatever the sign.
RoundToInt_half_up(a) ==
    IF a.sign = 0 THEN RoundMag(a.man, -a.exp)
    ELSE IF a.exp >= 0 THEN -(a.man * 2 ^ a.exp)
    ELSE IF -a.exp > MantBits THEN 0
    ELSE -((a.man + 2 ^ (-a.exp - 1) - 1) \div 2 ^ (-a.exp))

\* `a.round() as i32`: to the nearest integer, halves away from zero.
RoundToInt(a) ==
    IF a.sign = 1 THEN -RoundMag(a.man, -a.exp) ELSE RoundMag(a.man, -a.exp)

(***************************************************************************)
(* Glucose (glucose.rs)                                                    *)
(***************************************************************************)
MGDL_PER_MMOL == Lit(18015588, 6)

MIN_BG_VALUE == FromInt(-9999)

MAX_BG_VALUE == FromInt(9999)

MgDl(v) == [unit |-> "MgDl", mgdl |-> v]

Mmol(x) == [unit |-> "Mmol", mmol |-> x]

\* to_mgdl with the product cut toward zero (`as i32` without round()).
to_mgdl_truncating(g) ==
    IF g.unit = "MgDl" THEN g
    ELSE LET p == Mul32(g.mmol, MGDL_PER_MMOL)
         IN  MgDl((IF p.sign = 1 THEN -1 ELSE 1)
                    * (IF p.exp >= 0 THEN p.man * 2 ^ p.exp
                       ELSE IF -p.exp > MantBits THEN 0
                       ELSE p.man \div 2 ^ (-p.exp)))

to_mgdl(g) ==
    IF g.unit = "MgDl" THEN g
    ELSE MgDl(RoundToInt(Mul32(g.mmol, MGDL_PER_MMOL)))

to_mmol(g) ==
    IF g.unit = "MgDl" THEN Mmol(Div32(FromInt(g.mgdl), MGDL_PER_MMOL))
    ELSE g

\* convert with its arms the wrong way round: each value sent to its own unit.
convert_same_unit(g) == IF g.unit = "MgDl" THEN to_mgdl(g) ELSE to_mmol(g)

convert(g) == IF g.unit = "MgDl" THEN to_mmol(g) ELSE to_mgdl(g)

(***************************************************************************)
(* Strings                                                                 *)
(***************************************************************************)
DigitChars == <<"0", "1", "2", "3", "4", "5", "6", "7", "8", "9">>

UpperChars == <<"A", "B", "C", "D", "E", "F", "G", "H", "I", "J", "K", "L", "M",
                "N", "O", "P", "Q", "R", "S", "T", "U", "V", "W", "X", "Y", "Z">>

LowerChars == <<"a", "b", "c", "d", "e", "f", "g", "h", "i", "j", "k", "l", "m",
                "n", "o", "p", "q", "r", "s", "t", "u", "v", "w", "x", "y", "z">>

Whitespace == {" ", "\t"}

is_ascii_digit(c) == \E i \in DOMAIN DigitChars : DigitChars[i] = c

DigitValue(c) == (CHOOSE i \in DOMAIN DigitChars : DigitChars[i] = c) - 1

RECURSIVE trim_start(_)
trim_start(s) ==
    IF s /= <<>> /\ Head(s) \in Whitespace THEN trim_start(Tail(s)) ELSE s

RECURSIVE trim_end(_)
trim_end(s) ==
    IF s /= <<>> /\ s[Len(s)] \in Whitespace
    THEN trim_end(SubSeq(s, 1, Len(s) - 1))
    ELSE s

trim(s) == trim_end(trim_start(s))

\* replace that leaves the string as it is: no normalising of the comma.
replace_nothing(s, from, to) == s

replace(s, from, to) == [i \in DOMAIN s |-> IF s[i] = from THEN to ELSE s[i]]

char_to_lowercase(c) ==
    IF \E i \in DOMAIN UpperChars : UpperChars[i] = c
    THEN LowerChars[CHOOSE i \in DOMAIN UpperChars : UpperChars[i] = c]
    ELSE c

to_lowercase(s) == [i \in DOMAIN s |-> char_to_lowercase(s[i])]

RECURSIVE DigitsValue(_)
\* The number a string of decimal digits writes.
DigitsValue(ds) ==
    IF ds = <<>> THEN 0
    ELSE 10 * DigitsValue(SubSeq(ds, 1, Len(ds) - 1)) + DigitValue(ds[Len(ds)])

\* str::parse::<f32> on a string of digits, '.' and '-': an optional leading
\* '-', then digits with at most one '.', at least one digit in all; the
\* value is the nearest f32 to the decimal written.
parse_f32(s) ==
    LET neg  == s /= <<>> /\ Head(s) = "-"
        body == IF neg THEN Tail(s) ELSE s
        dots == {i \in DOMAIN body : body[i] = "."}
        digs == SelectSeq(body, is_ascii_digit)
    IN  IF \/ \E i \in DOMAIN body : body[i] = "-"
           \/ Cardinality(dots) > 1
           \/ digs = <<>>
        THEN None
        ELSE Some(RoundRatio(IF neg THEN 1 ELSE 0, DigitsValue(digs),
                             10 ^ (IF dots = {} THEN 0
                                   ELSE Len(body) - (CHOOSE i \in dots : TRUE)),
                             0))

(***************************************************************************)
(* parse_glucose_input and ParsedGlucoseResult::parse (glucose.rs)         *)
(***************************************************************************)
Err(kind) == [kind |-> "Err", err |-> kind]

ErrWith(kind, text) == [kind |-> "Err", err |-> kind, text |-> text]

Known(g) == [kind |-> "Known", glucose |-> g]

Ambiguous(original, as_mmol, as_mgdl) ==
    [kind |-> "Ambiguous", original |-> original,
     as_mmol |-> as_mmol, as_mgdl |-> as_mgdl]

\* The byte index of the first char that is no digit, '.' or '-', else len.
split_pos(value) ==
    LET stops == {i \in DOMAIN value :
                    ~is_ascii_digit(value[i]) /\ value[i] /= "." /\ value[i] /= "-"}
    IN  IF stops = {} THEN Len(value)
        ELSE (CHOOSE i \in stops : \A j \in stops : i <= j) - 1

\* final_unit with the precedence turned round: the unit text of the value
\* string first, the unit parameter only when there is none.
final_unit_text_first(unit, unit_part) ==
    IF unit_part /= <<>> THEN Some(to_lowercase(unit_part))
    ELSE IF unit.some THEN Some(to_lowercase(trim(unit.val)))
    ELSE None

\* Determine unit: the unit parameter, else the unit text of the value string.
final_unit(unit, unit_part) ==
    IF unit.some THEN Some(to_lowercase(trim(unit.val)))
    ELSE IF unit_part /= <<>> THEN Some(to_lowercase(unit_part))
    ELSE None

\* Ok((num, final_unit)) is [kind |-> "Ok", num, unit].
parse_glucose_input(value0, unit) ==
    LET value == replace(trim(value0), ",", ".")
    IN  IF value = <<>> THEN Err("EmptyInput")
        ELSE IF split_pos(value) = 0 THEN ErrWith("InvalidNumber", value)
        ELSE LET num_part  == trim(SubSeq(value, 1, split_pos(value)))
                 unit_part == trim(SubSeq(value, split_pos(value) + 1, Len(value)))
                 num       == parse_f32(num_part)
             IN  IF ~num.some THEN ErrWith("InvalidNumber", num_part)
                 ELSE [kind |-> "Ok", num |-> num.val,
                       unit |-> final_unit(unit, unit_part)]

\* in_bg_range with an exclusive range MIN_BG_VALUE..MAX_BG_VALUE.
in_bg_range_exclusive(num) == Le32(MIN_BG_VALUE, num) /\ Lt32(num, MAX_BG_VALUE)

\* (MIN_BG_VALUE..=MAX_BG_VALUE).contains(&num)
in_bg_range(num) == Le32(MIN_BG_VALUE, num) /\ Le32(num, MAX_BG_VALUE)

\* guess_unit with the ambiguity band's upper end left out (25.0..50.0).
guess_unit_exclusive(s, num, num_int) ==
    IF Le32(FromInt(25), num) /\ Lt32(num, FromInt(50))
    THEN Ambiguous(trim(s), Mmol(num), MgDl(num_int))
    ELSE IF Lt32(num, FromInt(25)) THEN Known(Mmol(num))
    ELSE Known(MgDl(num_int))

\* The arm `None | Some("")`: guess the unit from the magnitude.
guess_unit(s, num, num_int) ==
    IF Le32(FromInt(25), num) /\ Le32(num, FromInt(50))
    THEN Ambiguous(trim(s), Mmol(num), MgDl(num_int))
    ELSE IF Lt32(num, FromInt(25)) THEN Known(Mmol(num))
    ELSE Known(MgDl(num_int))

\* match_unit without the alias "mg".
match_unit_no_mg(unit, num, num_int) ==
    LET u == to_lowercase(unit)
    IN  IF u \in {<<"m", "m", "o", "l">>, <<"m", "m", "o", "l", "/", "l">>}
        THEN Known(Mmol(num))
        ELSE IF u \in {<<"m", "g", "/", "d", "l">>, <<"m", "g", "d", "l">>}
        THEN Known(MgDl(num_int))
        ELSE ErrWith("UnknownUnit", unit)

\* The arm `Some(unit)`: the unit was provided.
match_unit(unit, num, num_int) ==
    LET u == to_lowercase(unit)
    IN  IF u \in {<<"m", "m", "o", "l">>, <<"m", "m", "o", "l", "/", "l">>}
        THEN Known(Mmol(num))
        ELSE IF u \in {<<"m", "g">>, <<"m", "g", "/", "d", "l">>,
                       <<"m", "g", "d", "l">>}
        THEN Known(MgDl(num_int))
        ELSE ErrWith("UnknownUnit", unit)

\* parse with the unit matched before the range is checked.
parse_unit_first(s, unit) ==
    LET p == parse_glucose_input(s, unit)
    IN  IF p.kind = "Err" THEN p
        ELSE IF ~p.unit.some \/ p.unit.val = <<>>
        THEN IF ~in_bg_range(p.num) THEN ErrWith("OutOfRange", s)
             ELSE guess_unit(s, p.num, RoundToInt(p.num))
        ELSE IF match_unit(p.unit.val, p.num, 0).kind = "Err"
        THEN match_unit(p.unit.val, p.num, 0)
        ELSE IF ~in_bg_range(p.num) THEN ErrWith("OutOfRange", s)
        ELSE match_unit(p.unit.val, p.num, RoundToInt(p.num))

parse(s, unit) ==
    LET p == parse_glucose_input(s, unit)
    IN  IF p.kind = "Err" THEN p
        ELSE IF ~in_bg_range(p.num) THEN ErrWith("OutOfRange", s)
        ELSE IF ~p.unit.some \/ p.unit.val = <<>>
        THEN guess_unit(s, p.num, RoundToInt(p.num))
        ELSE match_unit(p.unit.val, p.num, RoundToInt(p.num))

(***************************************************************************)
(* A1cEstimation (a1c.rs)                                                  *)
(***************************************************************************)
A1cEstimation(glucose, ifcc, dcct, fructosamine) ==
    [glucose |-> glucose, ifcc |-> ifcc, dcct |-> dcct,
     fructosamine |-> fructosamine]

MissingInputValue(target, expected) ==
    [ok |-> FALSE, err |-> "MissingInputValue", target |-> target,
     expected |-> expected]

Ok(v) == [ok |-> TRUE, val |-> v]

\* Glucose::as_mgdl_value is called by a1c.rs and defined nowhere under src/:
\* the reading's magnitude in mg/dL, a mmol/L reading converted first.
as_mgdl_value(g) == to_mgdl(g).mgdl

\* (mgdl + 46.7) / 28.7
dcct_from_glucose(g) ==
    Div32(Add32(FromInt(as_mgdl_value(g)), Lit(467, 1)), Lit(287, 1))

\* (ifcc / 10.929) + 2.15
dcct_from_ifcc(ifcc) == Add32(Div32(ifcc, Lit(10929, 3)), Lit(215, 2))

\* (dcct - 2.15) * 10.929
ifcc_from_dcct(dcct) == Mul32(Sub32(dcct, Lit(215, 2)), Lit(10929, 3))

\* (dcct - 1.61) * 58.82
fructosamine_from_dcct(dcct) == Mul32(Sub32(dcct, Lit(161, 2)), Lit(5882, 2))

\* Each method on &mut self gives [self |-> the record afterwards, res |-> its
\* return value].  `Ok(*self)`: the record as it now is, and a copy of it.
OkSelf(self) == [self |-> self, res |-> Ok(self)]

\* `?` on a Result<Self, _>, then `.field.unwrap()` on the copy.
FieldOf(c, field) ==
    IF c.res.ok THEN [self |-> c.self, res |-> Ok(c.res.val[field].val)] ELSE c

calculate_dcct(self) ==
    IF self.dcct.some THEN OkSelf(self)
    ELSE IF self.glucose.some
    THEN OkSelf([self EXCEPT !.dcct = Some(dcct_from_glucose(self.glucose.val))])
    ELSE IF self.ifcc.some
    THEN OkSelf([self EXCEPT !.dcct = Some(dcct_from_ifcc(self.ifcc.val))])
    ELSE [self |-> self,
          res  |-> MissingInputValue("dcct", "glucose, ifcc")]

\* as_dcct_value without the memo read: dcct is worked out afresh each call.
as_dcct_value_recompute(self) ==
    FieldOf(calculate_dcct([self EXCEPT !.dcct = None]), "dcct")

as_dcct_value(self) ==
    IF self.dcct.some THEN [self |-> self, res |-> Ok(self.dcct.val)]
    ELSE FieldOf(calculate_dcct(self), "dcct")

\* ifcc_via_dcct with the pivot cut to whole percent on the way.
ifcc_via_dcct_whole(c) ==
    OkSelf([c.self EXCEPT
              !.ifcc = Some(ifcc_from_dcct(
                                FromInt(RoundToInt(c.res.val.dcct.val))))])

\* self.ifcc = Some((self.calculate_dcct().unwrap().dcct.unwrap() - 2.15) * 10.929)
\* with c what calculate_dcct gave; unwrap() has an Ok to take, glucose being there.
ifcc_via_dcct(c) ==
    OkSelf([c.self EXCEPT !.ifcc = Some(ifcc_from_dcct(c.res.val.dcct.val))])

\* calculate_ifcc taking dcct out of the record as it derives ifcc from it
\* (Option::take for unwrap).
calculate_ifcc_taking(self) ==
    IF self.ifcc.some THEN OkSelf(self)
    ELSE IF self.dcct.some
    THEN OkSelf([self EXCEPT !.ifcc = Some(ifcc_from_dcct(self.dcct.val)),
                             !.dcct = None])
    ELSE IF self.glucose.some THEN ifcc_via_dcct(calculate_dcct(self))
    ELSE [self |-> self,
          res  |-> MissingInputValue("ifcc", "glucose, dcct")]

calculate_ifcc(self) ==
    IF self.ifcc.some THEN OkSelf(self)
    ELSE IF self.dcct.some
    THEN OkSelf([self EXCEPT !.ifcc = Some(ifcc_from_dcct(self.dcct.val))])
    ELSE IF self.glucose.some THEN ifcc_via_dcct(calculate_dcct(self))
    ELSE [self |-> self,
          res  |-> MissingInputValue("ifcc", "glucose, dcct")]

as_ifcc_value(self) ==
    IF self.ifcc.some THEN [self |-> self, res |-> Ok(self.ifcc.val)]
    ELSE FieldOf(calculate_ifcc(self), "ifcc")

\* fructosamine_via_dcct with the pivot worked out on a copy and not kept.
fructosamine_via_dcct_uncached(c) ==
    IF ~c.res.ok THEN c
    ELSE OkSelf([c.self EXCEPT
                   !.dcct = None,
                   !.fructosamine =
                       Some(fructosamine_from_dcct(c.res.val.dcct.val))])

\* self.fructosamine = Some((self.calculate_dcct()?.dcct.unwrap() - 1.61) * 58.82)
\* with c what calculate_dcct gave.
fructosamine_via_dcct(c) ==
    IF ~c.res.ok THEN c
    ELSE OkSelf([c.self EXCEPT
                   !.fructosamine =
                       Some(fructosamine_from_dcct(c.res.val.dcct.val))])

\* calculate_fructosamine naming the supplying scales in the other order.
calculate_fructosamine_msg(self) ==
    IF self.fructosamine.some THEN OkSelf(self)
    ELSE IF self.dcct.some
    THEN OkSelf([self EXCEPT
                   !.fructosamine = Some(fructosamine_from_dcct(self.dcct.val))])
    ELSE IF self.glucose.some THEN fructosamine_via_dcct(calculate_dcct(self))
    ELSE [self |-> self,
          res  |-> MissingInputValue("fructosamine", "glucose, dcct")]

calculate_fructosamine(self) ==
    IF self.fructosamine.some THEN OkSelf(self)
    ELSE IF self.dcct.some
    THEN OkSelf([self EXCEPT
                   !.fructosamine = Some(fructosamine_from_dcct(self.dcct.val))])
    ELSE IF self.glucose.some THEN fructosamine_via_dcct(calculate_dcct(self))
    ELSE [self |-> self,
          res  |-> MissingInputValue("fructosamine", "dcct, glucose")]

as_fructosamine_value(self) ==
    IF self.fructosamine.some
    THEN [self |-> self, res |-> Ok(self.fructosamine.val)]
    ELSE FieldOf(calculate_fructosamine(self), "fructosamine")

(***************************************************************************)
(* The inputs the model draws from                                         *)
(***************************************************************************)
\* Numeric texts: every string over NumChars up to MaxNumLen characters, and
\* the texts at the edges of the ambiguity band, of the accepted range and of
\* rounding.
MaxNumLen == 3

NumChars == {"2", "5", ".", "-", ","}

EdgeTexts ==
    {<<"2", "4", ".", "9", "9", "9">>,
     <<"2", "5", ".", "0">>,
     <<"5", "0", ".", "0">>,
     <<"5", "0", ".", "0", "0", "1">>,
     <<"2", "4", ".", "9", "9", "9", "9", "9", "9", "9">>,
     <<"3", "5">>,
     <<"2", "5", ".", "5">>,
     <<"4", "9", ".", "5">>,
     <<"2", ".", "5">>,
     <<"-", "5", ".", "5">>,
     <<"1", "0", "0", ".", "5">>,
     <<"9", "9", "9", "9">>,
     <<"-", "9", "9", "9", "9">>,
     <<"1", "0", "0", "0", "0">>,
     <<"-", "1", "0", "0", "0", "0">>,
     <<"9", "9", "9", "9", ".", "0", "0", "0", "4">>,
     <<"9", "9", "9", "9", ".", "0", "0", "1">>,
     <<"-", "9", "9", "9", "9", ".", "5">>,
     <<"5", ",", "5">>,
     <<"1", "8", "0">>}

NumTexts == EdgeTexts \cup UNION {[1..n -> NumChars] : n \in 0..MaxNumLen}

\* What follows the number in the string: nothing, or a unit text.
UnitTexts ==
    {<<>>,
     <<" ", "m", "m", "o", "l">>,
     <<"M", "M", "O", "L", "/", "L">>,
     <<" ", "m", "g">>,
     <<"m", "g", "/", "d", "L">>,
     <<" ", "M", "g", "D", "l">>,
     <<" ", "m", "m", "o", "l", "l">>,
     <<" ", "m", "m", "o", "l", " ", "/", " ", "L">>}

Inputs ==
    {pad \o num \o unit \o pad :
        pad \in {<<>>, <<" ">>}, num \in NumTexts, unit \in UnitTexts}

Hints ==
    {None, Some(<<>>)} \cup
    {Some(h) : h \in
        {<<"m", "g", "/", "d", "L">>,
         <<"m", "m", "o", "l", "/", "L">>,
         <<" ", "M", "M", "O", "L", " ">>,
         <<"m", "g", "d", "l">>,
         <<"U", "n", "i", "t", "s">>,
         <<" ">>}}

\* Glucose values: every mg/dL count parse can return, and mmol/L readings
\* in tenths from -2.0 to MmolTenthsMax / 10.
MmolTenthsMax == 600

GlucoseInputs ==
    {MgDl(v) : v \in -9999..9999} \cup
    {Mmol(Lit(n, 1)) : n \in -20..MmolTenthsMax}

\* A1cEstimation records: each field absent or one of a few values.
A1cInputs ==
    {A1cEstimation(g, i, d, f) :
        g \in {None, Some(MgDl(100)), Some(Mmol(Lit(56, 1))), Some(MgDl(-47))},
        i \in {None, Some(Lit(49727, 3)), Some(Zero32(0))},
        d \in {None, Some(Lit(67, 1)), Some(Lit(215, 2))},
        f \in {None, Some(Lit(2059586, 4)), Some(Lit(300, 0))}}

\* How many conversions are chained, and how many accessors are called.
MaxOps == 2

MaxCalls == 3

(***************************************************************************)
(* One call of ParsedGlucoseResult::parse (commands/convert.rs calls it    *)
(* once per command)                                                       *)
(***************************************************************************)
NoA1c == A1cEstimation(None, None, None, None)

Init ==
    /\ input \in Inputs
    /\ hint \in Hints
    /\ result = None
    /\ bg0 = MgDl(0) /\ bg = MgDl(0) /\ ops = <<>>
    /\ est0 = NoA1c /\ est = NoA1c /\ calls = <<>> /\ ret = None

Parse ==
    /\ result = None
    /\ result' = parse(input, hint)
    /\ UNCHANGED <<input, hint, bg0, bg, ops, est0, est, calls, ret>>

Next == Parse

Spec == Init /\ [][Next]_vars

(***************************************************************************)
(* Chains of Glucose conversions                                           *)
(***************************************************************************)
InitGlucose ==
    /\ bg0 \in GlucoseInputs
    /\ bg = bg0
    /\ ops = <<>>
    /\ input = <<>> /\ hint = None /\ result = None
    /\ est0 = NoA1c /\ est = NoA1c /\ calls = <<>> /\ ret = None

Convert ==
    /\ Len(ops) < MaxOps
    /\ bg' = convert(bg)
    /\ ops' = Append(ops, "convert")
    /\ UNCHANGED <<input, hint, result, bg0, est0, est, calls, ret>>

ToMgdl ==
    /\ Len(ops) < MaxOps
    /\ bg' = to_mgdl(bg)
    /\ ops' = Append(ops, "to_mgdl")
    /\ UNCHANGED <<input, hint, result, bg0, est0, est, calls, ret>>

ToMmol ==
    /\ Len(ops) < MaxOps
    /\ bg' = to_mmol(bg)
    /\ ops' = Append(ops, "to_mmol")
    /\ UNCHANGED <<input, hint, result, bg0, est0, est, calls, ret>>

NextGlucose == Convert \/ ToMgdl \/ ToMmol

SpecGlucose == InitGlucose /\ [][NextGlucose]_vars

(***************************************************************************)
(* Accessor calls on one A1cEstimation record                              *)
(***************************************************************************)
InitA1c ==
    /\ est0 \in A1cInputs
    /\ est = est0
    /\ calls = <<>>
    /\ ret = None
    /\ input = <<>> /\ hint = None /\ result = None
    /\ bg0 = MgDl(0) /\ bg = MgDl(0) /\ ops = <<>>

\* The call leaves the record and the caller's return value.
Returned(r) == est' = r.self /\ ret' = r.res

AsDcctValue ==
    /\ Len(calls) < MaxCalls
    /\ Returned(as_dcct_value(est))
    /\ calls' = Append(calls, "dcct")
    /\ UNCHANGED <<input, hint, result, bg0, bg, ops, est0>>

AsIfccValue ==
    /\ Len(calls) < MaxCalls
    /\ Returned(as_ifcc_value(est))
    /\ calls' = Append(calls, "ifcc")
    /\ UNCHANGED <<input, hint, result, bg0, bg, ops, est0>>

AsFructosamineValue ==
    /\ Len(calls) < MaxCalls
    /\ Returned(as_fructosamine_value(est))
    /\ calls' = Append(calls, "fructosamine")
    /\ UNCHANGED <<input, hint, result, bg0, bg, ops, est0>>

NextA1c == AsDcctValue \/ AsIfccValue \/ AsFructosamineValue

SpecA1c == InitA1c /\ [][NextA1c]_vars

(***************************************************************************)
(* Claims about ParsedGlucoseResult::parse, checked under Spec             *)
(***************************************************************************)
\* The call has returned.
Called == result /= None

\* What parse_glucose_input makes of the call's arguments.
Split == parse_glucose_input(input, hint)

\* The input parses to a number v = Split.num.
Parses == Split.kind = "Ok"

\* -9999 <= v <= 9999
Accepted(v) == Le32(FromInt(-9999), v) /\ Le32(v, FromInt(9999))

\* The characters a number is written with (',' stands for '.').
IsNumChar(c) == is_ascii_digit(c) \/ c \in {".", "-", ","}

\* How many characters of t come before the first that is no IsNumChar.
PrefixLen(t) ==
    IF \A i \in DOMAIN t : IsNumChar(t[i]) THEN Len(t)
    ELSE (CHOOSE i \in DOMAIN t :
            ~IsNumChar(t[i]) /\ \A j \in 1..(i - 1) : IsNumChar(t[j])) - 1

\* The numeric prefix of the input, as written.
NumericPrefix == SubSeq(trim(input), 1, PrefixLen(trim(input)))

\* The unit text embedded in the input after its numeric prefix.
UnitText ==
    trim(SubSeq(trim(input), PrefixLen(trim(input)) + 1, Len(trim(input))))

\* The input cut after its numeric prefix: its unit text taken away.
WithoutUnitText ==
    SubSeq(input, 1,
           Len(input) - Len(trim_start(input)) + PrefixLen(trim(input)))

\* The unit the call resolves, as written: the hint, else the unit text.
ResolvedUnit == IF hint.some THEN trim(hint.val) ELSE UnitText

MmolNames == {<<"m", "m", "o", "l">>, <<"m", "m", "o", "l", "/", "l">>}

MgDlNames ==
    {<<"m", "g">>, <<"m", "g", "/", "d", "l">>, <<"m", "g", "d", "l">>}

\* C1: with no unit resolved (no unit text and no hint, or an empty hint) and
\* v accepted, the result is Ambiguous{trimmed input, Mmol(v), MgDl(round(v))}
\* for 25 <= v <= 50, Known(Mmol(v)) for v < 25, Known(MgDl(round(v))) for
\* v > 50; 24.999 is Known(Mmol), 25.0 and 50.0 Ambiguous, 50.001 Known(MgDl).
C1_GuessByMagnitude ==
    /\ (Called /\ Parses /\ Accepted(Split.num)
            /\ ((~hint.some /\ UnitText = <<>>) \/ hint = Some(<<>>)))
        => result =
             IF Le32(FromInt(25), Split.num) /\ Le32(Split.num, FromInt(50))
             THEN Ambiguous(trim(input), Mmol(Split.num),
                            MgDl(RoundToInt(Split.num)))
             ELSE IF Lt32(Split.num, FromInt(25)) THEN Known(Mmol(Split.num))
             ELSE Known(MgDl(RoundToInt(Split.num)))
    /\ (Called /\ ~hint.some /\ trim(input) = <<"2", "4", ".", "9", "9", "9">>)
        => result = Known(Mmol(Lit(24999, 3)))
    /\ (Called /\ ~hint.some /\ trim(input) \in {<<"2", "5", ".", "0">>,
                                                  <<"5", "0", ".", "0">>})
        => result.kind = "Ambiguous"
    /\ (Called /\ ~hint.some /\ trim(input) = <<"5", "0", ".", "0", "0", "1">>)
        => result = Known(MgDl(50))

\* C1 witness: a padded "50.0" with no hint came back Ambiguous, keyed by the
\* trimmed input.
C1_Witness ==
    /\ Called /\ ~hint.some
    /\ input = <<" ", "5", "0", ".", "0", " ">>
    /\ result = Ambiguous(<<"5", "0", ".", "0">>, Mmol(FromInt(50)), MgDl(50))

\* The result without the input text it echoes (Ambiguous.original and the
\* text of OutOfRange).
WithoutEcho(r) ==
    IF r.kind = "Ambiguous"
    THEN [kind |-> "Ambiguous", as_mmol |-> r.as_mmol, as_mgdl |-> r.as_mgdl]
    ELSE IF r.kind = "Err" /\ r.err = "OutOfRange" THEN Err("OutOfRange")
    ELSE r

\* C2 as stated: with a hint and unit text in the string, the outcome is that of the numeric prefix and
\* the hint alone, the embedded unit text ignored.
C2_UnitTextIgnored ==
    (Called /\ hint.some /\ UnitText /= <<>>) => result = parse(WithoutUnitText, hint)

\* C2 as amended: with a hint, and a numeric prefix followed by unit text in
\* the string, the result is that of the numeric prefix and the hint alone
\* but for the input text echoed in Ambiguous.original and OutOfRange; the
\* hint wins over any embedded unit, and UnknownUnit then carries the hint,
\* never the unit text.
C2_HintOverridesUnitText ==
    /\ (Called /\ hint.some /\ UnitText /= <<>> /\ NumericPrefix /= <<>>)
        => WithoutEcho(result) = WithoutEcho(parse(WithoutUnitText, hint))
    /\ (Called /\ hint.some /\ result.kind = "Err" /\ result.err = "UnknownUnit")
        => result.text = to_lowercase(trim(hint.val))
    /\ (Called /\ hint.some /\ Parses /\ Accepted(Split.num)
            /\ to_lowercase(trim(hint.val)) \in MgDlNames)
        => result = Known(MgDl(RoundToInt(Split.num)))

\* C2 witness: "5 mmol" with the hint mg/dL came back Known(MgDl(5)).
C2_Witness ==
    /\ Called
    /\ hint = Some(<<"m", "g", "/", "d", "L">>)
    /\ input = <<"5", " ", "m", "m", "o", "l">>
    /\ result = Known(MgDl(5))

\* C3: with a non-empty unit resolved and v accepted, the unit is matched
\* without regard to case: mmol, mmol/l give Known(Mmol(v)); mg, mg/dl, mgdl
\* give Known(MgDl(round(v))); any other text gives UnknownUnit carrying the
\* lower-cased text; the result is never Ambiguous.
C3_UnitMatching ==
    (Called /\ Parses /\ Accepted(Split.num) /\ ResolvedUnit /= <<>>)
        => /\ result =
                IF to_lowercase(ResolvedUnit) \in MmolNames
                THEN Known(Mmol(Split.num))
                ELSE IF to_lowercase(ResolvedUnit) \in MgDlNames
                THEN Known(MgDl(RoundToInt(Split.num)))
                ELSE ErrWith("UnknownUnit", to_lowercase(ResolvedUnit))
           /\ result.kind /= "Ambiguous"

\* C3 witness: "25 MgDl", inside the ambiguity band, came back Known(MgDl(25)).
C3_Witness ==
    /\ Called /\ ~hint.some
    /\ input = <<"2", "5", " ", "M", "g", "D", "l">>
    /\ result = Known(MgDl(25))

\* C4: a parsed number v is accepted exactly when -9999 <= v <= 9999; outside
\* it the result is OutOfRange carrying the input as the caller passed it,
\* whatever the unit or hint.
C4_RangeCheck ==
    (Called /\ Parses)
        => /\ ~Accepted(Split.num) => result = ErrWith("OutOfRange", input)
           /\ Accepted(Split.num)
                => ~(result.kind = "Err" /\ result.err = "OutOfRange")
           /\ trim(input) \in {<<"9", "9", "9", "9">>, <<"-", "9", "9", "9", "9">>}
                => Accepted(Split.num)
           /\ trim(input) \in {<<"1", "0", "0", "0", "0">>,
                               <<"-", "1", "0", "0", "0", "0">>}
                => ~Accepted(Split.num)

\* C4 witness: a padded "-10000 mmol" under a hint came back OutOfRange with
\* the padding and the unit text still in it.
C4_Witness ==
    /\ Called /\ hint.some
    /\ input = <<" ", "-", "1", "0", "0", "0", "0", " ", "m", "m", "o", "l", " ">>
    /\ result = ErrWith("OutOfRange", input)

(***************************************************************************)
(* Claims about the A1cEstimation accessors, checked under SpecA1c         *)
(***************************************************************************)
Targets == {"dcct", "ifcc", "fructosamine"}

\* This step is a call of the accessor of scale x.
Calling(x) == calls' = Append(calls, x)

\* The record holds field x and nothing else.
Only(e, x) == \A y \in DOMAIN e : e[y].some <=> y = x

\* The last accessor called.
LastCall == calls[Len(calls)]

\* C5 as stated: an accessor succeeds exactly when some field of the record
\* is populated, every scale being reachable from every field through dcct;
\* so as_fructosamine_value succeeds on ifcc alone, and as_dcct_value on
\* fructosamine alone gives fructosamine / 58.82 + 1.61.
C5_DerivesFromAnyField ==
    Len(calls) = 1
        => /\ ret.ok <=> \E y \in DOMAIN est0 : est0[y].some
           /\ (Only(est0, "fructosamine") /\ calls[1] = "dcct")
                => ret = Ok(Add32(Div32(est0.fructosamine.val, Lit(5882, 2)),
                                  Lit(161, 2)))

\* C6: an accessor whose own field is populated returns that stored value,
\* never an error, and leaves all four fields as they were.
C6_CachedValueReturned ==
    [][\A x \in Targets :
         (Calling(x) /\ est[x].some) => (ret' = Ok(est[x].val) /\ est' = est)]_vars

\* C6 witness: as_ifcc_value on a record holding ifcc alone gave it back.
C6_Witness ==
    /\ calls = <<"ifcc">>
    /\ Only(est0, "ifcc")
    /\ ret = Ok(est0.ifcc.val)
    /\ est = est0

\* C7: when an accessor derives its value (own field absent, call succeeds),
\* the target field then holds the returned value; dcct is populated too when
\* it was absent and served as pivot, and is otherwise as it was; glucose and
\* every other field are as they were.
C7_DerivationFrame ==
    [][\A x \in Targets :
         (Calling(x) /\ ~est[x].some /\ ret'.ok)
            => /\ est'[x] = Some(ret'.val)
               /\ est'.glucose = est.glucose
               /\ \A y \in Targets \ {x, "dcct"} : est'[y] = est[y]
               /\ (x /= "dcct" /\ est.dcct.some) => est'.dcct = est.dcct
               /\ (x /= "dcct" /\ ~est.dcct.some)
                    => est'.dcct = Some(dcct_from_glucose(est.glucose.val))]_vars

\* C7 witness: as_fructosamine_value on a glucose-only record filled in
\* fructosamine and the pivot dcct, and left ifcc absent.
C7_Witness ==
    /\ calls = <<"fructosamine">>
    /\ Only(est0, "glucose")
    /\ ret.ok
    /\ est.fructosamine = Some(ret.val)
    /\ est.dcct.some
    /\ ~est.ifcc.some
    /\ est.glucose = est0.glucose

\* C8: on a record with no field populated every accessor fails with
\* MissingInputValue naming its target and the scales that could supply it,
\* and leaves the record empty, so later calls fail the same way.
C8_EmptyRecordFails ==
    (est0 = NoA1c /\ calls /= <<>>)
        => /\ est = NoA1c
           /\ ret = MissingInputValue(
                        LastCall,
                        CASE LastCall = "dcct" -> "glucose, ifcc"
                          [] LastCall = "ifcc" -> "glucose, dcct"
                          [] LastCall = "fructosamine" -> "dcct, glucose")

\* C8 witness: as_fructosamine_value failed twice running on the empty record.
C8_Witness ==
    /\ est0 = NoA1c
    /\ calls = <<"fructosamine", "fructosamine">>
    /\ ret = MissingInputValue("fructosamine", "dcct, glucose")
    /\ est = NoA1c

\* dcct = (mgdl + 46.7) / 28.7 for the glucose the record started with.
PivotOf(e) ==
    Div32(Add32(FromInt(as_mgdl_value(e.glucose.val)), Lit(467, 1)),
          Lit(287, 1))

\* C9: on a glucose-only record every accessor, in whatever order the calls
\* come, returns what it returns on a fresh record holding only
\* dcct = (mgdl + 46.7) / 28.7: ifcc = (dcct - 2.15) * 10.929 and
\* fructosamine = (dcct - 1.61) * 58.82.
C9_OrderIndependent ==
    (Only(est0, "glucose") /\ calls /= <<>>)
        => /\ ret = CASE LastCall = "dcct" -> Ok(PivotOf(est0))
                      [] LastCall = "ifcc" ->
                           Ok(Mul32(Sub32(PivotOf(est0), Lit(215, 2)),
                                    Lit(10929, 3)))
                      [] LastCall = "fructosamine" ->
                           Ok(Mul32(Sub32(PivotOf(est0), Lit(161, 2)),
                                    Lit(5882, 2)))
           /\ LastCall = "ifcc"
                => ret = as_ifcc_value(
                             A1cEstimation(None, None, Some(PivotOf(est0)),
                                           None)).res
           /\ LastCall = "fructosamine"
                => ret = as_fructosamine_value(
                             A1cEstimation(None, None, Some(PivotOf(est0)),
                                           None)).res

\* C9 witness: from MgDl(100), as_ifcc_value called after as_dcct_value gave
\* 8484607 * 2^-18 (32.366...).
C9_Witness ==
    /\ est0 = A1cEstimation(Some(MgDl(100)), None, None, None)
    /\ calls = <<"dcct", "ifcc">>
    /\ ret = Ok([sign |-> 0, man |-> 8484607, exp |-> -18])

(***************************************************************************)
(* Claims about Glucose conversion, checked under SpecGlucose              *)
(***************************************************************************)
\* C10: for every integer v in [-9999, 9999], MgDl(v).convert().convert() is
\* MgDl(v) again.
C10_RoundTrip ==
    (bg0.unit = "MgDl" /\ ops = <<"convert", "convert">>) => bg = bg0

\* C10 witness: MgDl(-9999) went to mmol/L and came back.
C10_Witness ==
    /\ bg0 = MgDl(-9999)
    /\ ops = <<"convert", "convert">>
    /\ bg = MgDl(-9999)

\* This step applies the conversion named op.
Applying(op) == ops' = Append(ops, op)

\* C11: convert always flips the unit tag, MgDl(v) to Mmol(v / 18.015588) and
\* Mmol(v) to MgDl(round(v * 18.015588)), so Mmol(5.7).convert() is MgDl(103);
\* to_mgdl and to_mmol give a value of the target unit, one already in it
\* unchanged (Mmol(5.5).to_mgdl() is MgDl(99)), and so are idempotent.
C11_ConvertFlipsUnit ==
    [][/\ Applying("convert")
            => /\ bg'.unit /= bg.unit
               /\ bg' = IF bg.unit = "MgDl"
                        THEN Mmol(Div32(FromInt(bg.mgdl), Lit(18015588, 6)))
                        ELSE MgDl(RoundToInt(Mul32(bg.mmol, Lit(18015588, 6))))
               /\ bg = Mmol(Lit(57, 1)) => bg' = MgDl(103)
       /\ Applying("to_mgdl")
            => /\ bg'.unit = "MgDl"
               /\ bg.unit = "MgDl" => bg' = bg
               /\ bg = Mmol(Lit(55, 1)) => bg' = MgDl(99)
               /\ to_mgdl(bg') = bg'
       /\ Applying("to_mmol")
            => /\ bg'.unit = "Mmol"
               /\ bg.unit = "Mmol" => bg' = bg
               /\ to_mmol(bg') = bg']_vars

\* C11 witness: Mmol(5.7) was converted and is MgDl(103).
C11_Witness ==
    /\ bg0 = Mmol(Lit(57, 1))
    /\ ops = <<"convert">>
    /\ bg = MgDl(103)

(***************************************************************************)
(* Further claims about ParsedGlucoseResult::parse, checked under Spec     *)
(***************************************************************************)
\* What a result says apart from the texts it carries: the variant and its
\* Glucose value(s), or the kind of error.
OutcomeOf(r) ==
    IF r.kind = "Ambiguous"
    THEN [kind |-> "Ambiguous", as_mmol |-> r.as_mmol, as_mgdl |-> r.as_mgdl]
    ELSE IF r.kind = "Err" THEN Err(r.err)
    ELSE r

\* The input with every ',' written as '.'.
CommasAsDots == [i \in DOMAIN input |-> IF input[i] = "," THEN "." ELSE input[i]]

\* C12: parse(s, u) and parse(s', u), s' being s with every ',' replaced by
\* '.', give the same variant with the same Glucose value(s), or the same
\* kind of error.
C12_CommaAsDecimalPoint ==
    Called => OutcomeOf(result) = OutcomeOf(parse(CommasAsDots, hint))

\* C12 witness: "5,5 mmol" came back Known(Mmol(5.5)).
C12_Witness ==
    /\ Called /\ ~hint.some
    /\ input = <<"5", ",", "5", " ", "m", "m", "o", "l">>
    /\ result = Known(Mmol(Lit(55, 1)))

\* The number the numeric prefix stands for, ',' read as '.', if it is one.
PrefixNumber == parse_f32([i \in DOMAIN NumericPrefix |->
                             IF NumericPrefix[i] = "," THEN "."
                             ELSE NumericPrefix[i]])

\* The first check the call fails, in the order EmptyInput, InvalidNumber,
\* OutOfRange, UnknownUnit; "none" when it passes them all.
FirstFailure ==
    IF trim(input) = <<>> THEN "EmptyInput"
    ELSE IF NumericPrefix = <<>> \/ ~PrefixNumber.some THEN "InvalidNumber"
    ELSE IF ~Accepted(PrefixNumber.val) THEN "OutOfRange"
    ELSE IF /\ ResolvedUnit /= <<>>
            /\ to_lowercase(ResolvedUnit) \notin MmolNames \cup MgDlNames
    THEN "UnknownUnit"
    ELSE "none"

\* C13: parse reports the first check that fails, in the order EmptyInput
\* (blank input), InvalidNumber (no numeric prefix, or one that is no number),
\* OutOfRange, UnknownUnit, and succeeds when none fails; so an out-of-range
\* number with an unknown unit is OutOfRange, and UnknownUnit comes only with
\* a valid number in range.
C13_FirstFailureReported ==
    Called
        => /\ FirstFailure = "none" => result.kind /= "Err"
           /\ FirstFailure /= "none"
                => result.kind = "Err" /\ result.err = FirstFailure
           /\ (result.kind = "Err" /\ result.err = "UnknownUnit")
                => PrefixNumber.some /\ Accepted(PrefixNumber.val)

\* C13 witness: "10000 mmoll", out of range and with an unknown unit, came
\* back OutOfRange.
C13_Witness ==
    /\ Called /\ ~hint.some
    /\ input = <<"1", "0", "0", "0", "0", " ", "m", "m", "o", "l", "l">>
    /\ result = ErrWith("OutOfRange", input)

(***************************************************************************)
(* Further claims about the A1cEstimation accessors, under SpecA1c         *)
(***************************************************************************)
\* The accessor of scale x called on record e.
CallOn(e, x) ==
    CASE x = "dcct" -> as_dcct_value(e)
      [] x = "ifcc" -> as_ifcc_value(e)
      [] x = "fructosamine" -> as_fructosamine_value(e)

\* The record after the first n calls of the sequence so far.
RECURSIVE RecordAfter(_)
RecordAfter(n) ==
    IF n = 0 THEN est0 ELSE CallOn(RecordAfter(n - 1), calls[n]).self

\* What the i-th call of the sequence so far returned.
ReturnAt(i) == CallOn(RecordAfter(i - 1), calls[i]).res

\* C14: across any sequence of accessor calls from any combination of
\* populated fields, a populated field is never cleared or changed, glucose
\* is never written, and once an accessor has succeeded every later call of
\* it succeeds with the same value.
C14_FieldsStable ==
    [][/\ \A f \in DOMAIN est : est[f].some => est'[f] = est[f]
       /\ est'.glucose = est.glucose
       /\ \A x \in Targets :
            Calling(x)
                => \A i \in DOMAIN calls :
                     (calls[i] = x /\ ReturnAt(i).ok) => ret' = ReturnAt(i)]_vars

\* C14 witness: from MgDl(100), as_ifcc_value gave the same 8484607 * 2^-18
\* again after as_dcct_value had been called in between.
C14_Witness ==
    /\ est0 = A1cEstimation(Some(MgDl(100)), None, None, None)
    /\ calls = <<"ifcc", "dcct", "ifcc">>
    /\ ret = Ok([sign |-> 0, man |-> 8484607, exp |-> -18])
    /\ est.glucose = est0.glucose

(***************************************************************************)
(* What every successful result of parse satisfies, checked under Spec     *)
(***************************************************************************)
\* n is v rounded to the nearest integer, halves away from zero:
\* 2|n| - 1 <= 2|v| < 2|n| + 1 with the sign of v, where 2|v| = man * 2^(exp+1).
IsRounded(n, v) ==
    IF v.man = 0 \/ -v.exp - 1 > 30 THEN n = 0
    ELSE /\ v.exp < 0
         /\ (2 * (IF n < 0 THEN -n ELSE n) - 1) * 2 ^ (-v.exp - 1) <= v.man
         /\ v.man < (2 * (IF n < 0 THEN -n ELSE n) + 1) * 2 ^ (-v.exp - 1)
         /\ n < 0 => v.sign = 1
         /\ n > 0 => v.sign = 0

\* The Glucose g of a result for the parsed number v: a magnitude in
\* [-9999, 9999], and a MgDl value the rounded v.
WellFormed(g, v) ==
    IF g.unit = "Mmol" THEN Accepted(g.mmol)
    ELSE -9999 <= g.mgdl /\ g.mgdl <= 9999 /\ IsRounded(g.mgdl, v)

\* C15: every successful result carries Glucose magnitudes in [-9999, 9999]
\* and MgDl values that are the parsed number rounded, halves away from zero;
\* an Ambiguous result has as_mmol = Mmol(v) with 25 <= v <= 50 and
\* as_mgdl = MgDl(round(v)) with 25 <= round(v) <= 50; a Known result without
\* a resolved unit has its parsed number outside [25, 50].
C15_SuccessInvariants ==
    (Called /\ result.kind /= "Err")
        => /\ PrefixNumber.some
           /\ result.kind = "Known"
                => /\ WellFormed(result.glucose, PrefixNumber.val)
                   /\ ResolvedUnit = <<>>
                        => ~(/\ Le32(FromInt(25), PrefixNumber.val)
                             /\ Le32(PrefixNumber.val, FromInt(50)))
           /\ result.kind = "Ambiguous"
                => /\ result.as_mmol = Mmol(PrefixNumber.val)
                   /\ Le32(FromInt(25), PrefixNumber.val)
                   /\ Le32(PrefixNumber.val, FromInt(50))
                   /\ result.as_mgdl.unit = "MgDl"
                   /\ WellFormed(result.as_mgdl, PrefixNumber.val)
                   /\ WellFormed(result.as_mmol, PrefixNumber.val)
                   /\ 25 <= result.as_mgdl.mgdl /\ result.as_mgdl.mgdl <= 50

\* C15 witness: "49.5" came back Ambiguous between Mmol(49.5) and MgDl(50).
C15_Witness ==
    /\ Called /\ ~hint.some
    /\ input = <<"4", "9", ".", "5">>
    /\ result = Ambiguous(input, Mmol(Lit(495, 1)), MgDl(50))

====
